---- MODULE Spec2Model ----
(***************************************************************************)
(* Model of webvy's staged pipeline driver (webvy_app/src/app.rs) and its  *)
(* deferred-task accounting (webvy_app/src/deferred.rs).                   *)
(*                                                                         *)
(* One driving thread executes ProcessorApp::run.  Work units (systems)    *)
(* of a phase call DeferredTask::scoped_task / scoped_task_local, which    *)
(* create a DeferredGuard (counter + 1) and queue a future on the IO pool  *)
(* or on the driving thread's local executor.  A task body may send a      *)
(* CommandQueue through its DeferredScope and may spawn uncounted nested   *)
(* work through DeferredScope::spawn.  When the body is over the guard is  *)
(* dropped: fetch_sub, then notify(1) on the shared Event, as two separate *)
(* steps of the thread that runs the task.                                 *)
(*                                                                         *)
(* Spec is the pipeline with task bodies as the three processors write     *)
(* them; ApiSpec adds every use the DeferredScope interface allows;        *)
(* PoolSpec is setup_threadpool over all hardware parallelisms;            *)
(* ProcessSpec is the Process schedule with its registered systems.        *)
(***************************************************************************)
EXTENDS Integers, Sequences, FiniteSets, TLC

\* ------------------------------------------------------------------ bounds
\* Number of counted background tasks spawned over one run.
MaxTasks == 2
\* Number of work units (systems) registered to each phase.
NumUnits == 2
\* Number of nested jobs spawned through a DeferredScope over one run.
MaxNested == 1
\* Number of Commands the body of one task enqueues at most.
MaxCommands == 2
\* Hardware parallelism of the host the pipeline runs on.
HostThreads == 8
\* Largest hardware parallelism the pool sizing is computed for.
MaxThreads == 128
\* Longest page, in characters, handed to Parser::parse.
MaxPageLen == 6
\* Most components of a page path.
MaxDepth == 3

\* -------------------------------------------------------- program constants
\* A faulty label list: two labels pushed in the wrong order.
schedules_swapped == <<"Preload", "Process", "Load", "PostProcess", "Write">>

\* app.rs init_schedules: the ordered label list and each schedule's executor.
schedules == <<"Preload", "Load", "Process", "PostProcess", "Write">>

ExecutorKind ==
  [Preload |-> "SingleThreaded", Load |-> "SingleThreaded",
   Process |-> "MultiThreaded", PostProcess |-> "MultiThreaded",
   Write |-> "SingleThreaded"]

NumPhases == Len(schedules)

Units == 1..NumUnits

VARIABLES
  pc,             \* position of the driving thread: "new" inside the
                  \* constructor, then inside run(), then "returned" or
                  \* "panicked", and "dropped" once main has dropped the app
  idx,            \* number of schedule labels the for loop has consumed
  ran,            \* labels handed to world.run_schedule, in call order
  units,          \* state of every work unit of the schedule being run:
                  \* "idle", "running", "done" or "panicked"
  waiting,        \* DeferredTask.waiting (AtomicU32)
  remaining,      \* iterations left of `for _ in 0..deferred_actions`
  listener,       \* the driver's EventListener on `finished`: "none",
                  \* "registered", "notified", or "timed_out" once a wait
                  \* on it has expired
  channel,        \* CommandQueue messages in flight (unbounded channel)
  deferred_queue, \* the local CommandQueue the barrier appends into
  world,          \* Commands applied to the World, in application order
  tasks,          \* counted background tasks, indexed by spawn order
  nested,         \* jobs spawned through DeferredScope::spawn
  sent,           \* ids of the tasks whose body has called scope.send
  threads,        \* bevy_tasks::available_parallelism()
  compute_threads, \* size of the ComputeTaskPool
  io_threads,     \* size of the IoTaskPool
  delimiter,      \* Parser.delimiter
  excerpt,        \* Parser.excerpt: <<>> is None, <<d>> is Some(d)
  page,           \* the text handed to Parser::parse
  parsed,         \* what parse returned: <<>> is None, <<data>> is Some
  path,           \* a page's relative path, as its components
  page_type,      \* the PageType index_sections inserts for the page
  section_index,  \* the pages index_sections pushed into SectionIndex
  associated      \* the PageType associate_pages_to_templates looks up

\* The state setup_threadpool works on.
pool == <<threads, compute_threads, io_threads>>

\* The state the front-matter parser works on.
parser_io == <<delimiter, excerpt, page, parsed>>

\* The state the page classification works on.
paths_io == <<path, page_type, section_index, associated>>

content == <<parser_io, paths_io>>

vars == <<pc, idx, ran, units, waiting, remaining, listener, channel,
          deferred_queue, world, tasks, nested, sent, pool, content>>

TaskIds == 1..Len(tasks)

NestedIds == 1..Len(nested)

\* The body of t is suspended on the handle of nested work it has spawned.
AwaitsNested(t) ==
  \E n \in NestedIds : nested[n].parent = t /\ nested[n].st = "awaited"

\* A task pinned to the driving thread that the local executor can poll:
\* it is neither suspended on I/O nor on the handle of nested work.
LocalRunnable(t) ==
  /\ tasks[t].kind = "local"
  /\ \/ tasks[t].st \in {"finished", "released"}
     \/ tasks[t].st \in {"spawned", "resumed"} /\ ~AwaitsNested(t)

\* The thread that may take the next step of task t: an IO pool thread at
\* any time, the driving thread only while it ticks its local executor.
CanStep(t) ==
  \/ tasks[t].kind = "pool"
  \/ tasks[t].kind = "local" /\ pc \in {"tick", "iotick"}

Range(s) == {s[i] : i \in 1..Len(s)}

\* The Receiver is a field of ProcessorApp: the channel is open until the
\* app is dropped.
receiver_open == pc # "dropped"

\* Schedules with a system that reads the configuration entity through
\* Query::single (init_section_page_types, read_directory_task,
\* parse_markdown, process_pages).
ConfigReaders == {"Load", "Process", "Write"}

\* The configuration entity exists: the Command enqueued by the task of the
\* Preload schedule (init_config) has been applied to the World.
file_config_exists ==
  \E i \in 1..Len(world) :
    world[i][1] \in TaskIds /\ tasks[world[i][1]].phase = 1

\* No page is being parsed or classified.
no_content ==
  /\ delimiter = <<>>
  /\ excerpt = <<>>
  /\ page = <<>>
  /\ parsed = <<>>
  /\ path = <<>>
  /\ page_type = "none"
  /\ section_index = {}
  /\ associated = "none"

\* ------------------------------------------------------------- pool sizing
\* A faulty division: the quotient is rounded down.
div_floor(a, b) == a \div b

\* usize::div_ceil: the quotient, plus one when there is a remainder.
div_ceil(a, b) == IF a % b > 0 THEN a \div b + 1 ELSE a \div b

\* usize::saturating_sub: the difference, or 0 where it would be negative.
saturating_sub(a, b) == IF a > b THEN a - b ELSE 0

max(a, b) == IF a >= b THEN a ELSE b

min(a, b) == IF a <= b THEN a ELSE b

\* `threads.div_ceil(2).saturating_sub(1).max(1)`
compute_pool_size(t) == max(saturating_sub(div_ceil(t, 2), 1), 1)

\* `threads.div_ceil(4).min(6)`
io_pool_size(t) == min(div_ceil(t, 4), 6)

\* --------------------------------------------------------------------- Init
\* ProcessorApp::new: pools sized, empty channel, counter 0, no listener,
\* schedules added.
Init ==
  /\ no_content
  /\ threads = HostThreads
  /\ compute_threads = compute_pool_size(threads)
  /\ io_threads = io_pool_size(threads)
  /\ pc = "next"
  /\ idx = 0
  /\ ran = <<>>
  /\ units = [u \in Units |-> "idle"]
  /\ waiting = 0
  /\ remaining = 0
  /\ listener = "none"
  /\ channel = <<>>
  /\ deferred_queue = <<>>
  /\ world = <<>>
  /\ tasks = <<>>
  /\ nested = <<>>
  /\ sent = {}

\* ProcessorApp::new has been entered on a host of any parallelism; the
\* pools are not yet built.
PoolInit ==
  /\ no_content
  /\ threads \in 1..MaxThreads
  /\ compute_threads = 0
  /\ io_threads = 0
  /\ pc = "new"
  /\ idx = 0
  /\ ran = <<>>
  /\ units = [u \in Units |-> "idle"]
  /\ waiting = 0
  /\ remaining = 0
  /\ listener = "none"
  /\ channel = <<>>
  /\ deferred_queue = <<>>
  /\ world = <<>>
  /\ tasks = <<>>
  /\ nested = <<>>
  /\ sent = {}

\* setup_threadpool: both pools are built with the sizes computed from the
\* hardware parallelism; the constructor goes on to the state Init describes.
setup_threadpool ==
  /\ pc = "new"
  /\ compute_threads' = compute_pool_size(threads)
  /\ io_threads' = io_pool_size(threads)
  /\ pc' = "next"
  /\ UNCHANGED <<threads, content, idx, ran, units, waiting, remaining,
                 listener, channel, deferred_queue, world, tasks, nested,
                 sent>>

PoolNext == setup_threadpool

PoolSpec == PoolInit /\ [][PoolNext]_vars

\* ------------------------------------------------------- library primitives
\* AtomicU32::fetch_add / fetch_sub on DeferredTask.waiting.  The model keeps
\* the mathematical value: a fetch_sub on 0, which wraps the u32 to 2^32 - 1,
\* shows as a negative counter.
fetch_add(w) == w + 1

\* A faulty release: the guard is released twice (an explicit completion
\* call on top of the drop).
fetch_sub_twice(w) == w - 2

fetch_sub(w) == w - 1

\* Event::notify(1): a non-additional notification.  It marks one registered
\* listener as notified unless a notified listener is still registered; with
\* no listener registered it is dropped.
notify(l) == IF l = "registered" THEN "notified" ELSE l

\* Sender::try_send on the unbounded channel: the message joins the tail.
try_send(ch, msg) == Append(ch, msg)

\* A faulty append: the received commands are put in front of the queue.
append_front(q, commands) == commands \o q

\* CommandQueue::append: the received commands join the local queue's tail.
append(q, commands) == q \o commands

\* CommandQueue::apply: every queued Command runs against the World in order.
apply(w, q) == w \o q

\* A faulty barrier: the applied Commands stay in the queue, which the next
\* barrier reuses.
after_apply_kept(q) == q

\* What is left of the local queue after `deferred_queue.apply(..)`: apply
\* consumes every Command, and each barrier starts from a fresh
\* CommandQueue::default().
after_apply(q) == <<>>

\* ---------------------------------------------------------- phase executor
\* SingleThreaded runs the systems one at a time in registration order;
\* MultiThreaded may start any system that has not run yet.
can_start(u) ==
  /\ units[u] = "idle"
  /\ ExecutorKind[schedules[idx]] = "SingleThreaded" =>
       /\ \A v \in Units : v < u => units[v] = "done"
       /\ \A v \in Units : units[v] # "running"

\* A faulty join: run_schedule returns as soon as one system has returned.
schedule_finished_early == \E u \in Units : units[u] = "done"

\* world.run_schedule returns once every system of the schedule has returned.
schedule_finished == \A u \in Units : units[u] = "done"

\* A faulty driver: it samples the counter without ticking the executor.
local_executor_unticked == TRUE

\* try_tick() returns false: the local executor has no runnable task left.
local_executor_idle == \A t \in TaskIds : ~LocalRunnable(t)

\* A faulty timeout: an expired wait is taken for a completed task.
after_timeout_counted(r) == r - 1

\* What `wait_timeout(..).is_some()` being false does to the iterations
\* left: nothing, there is no break.
after_timeout(r) == r

\* A faulty driver: the barrier block is entered at every phase boundary.
must_wait_always(deferred_actions) == deferred_actions >= 0

\* `if deferred_actions > 0`
must_wait(deferred_actions) == deferred_actions > 0

\* ---------------------------------------------------------- driver: run()
\* `for &schedule in schedules`: take the next label, call run_schedule.
StartSchedule ==
  /\ pc = "next"
  /\ idx < NumPhases
  /\ idx' = idx + 1
  /\ ran' = Append(ran, schedules[idx + 1])
  /\ units' = [u \in Units |-> "idle"]
  /\ pc' = "run"
  /\ UNCHANGED <<pool, content, waiting, remaining, listener, channel, deferred_queue,
                 world, tasks, nested, sent>>

\* The for loop is exhausted: run() returns.
Return ==
  /\ pc = "next"
  /\ idx = NumPhases
  /\ pc' = "returned"
  /\ UNCHANGED <<pool, content, idx, ran, units, waiting, remaining, listener, channel,
                 deferred_queue, world, tasks, nested, sent>>

\* main: run() is over (returned or unwinding); the temporary ProcessorApp
\* is dropped, and with it the World and the channel's only Receiver.
DropApp ==
  /\ pc \in {"returned", "panicked"}
  /\ pc' = "dropped"
  /\ UNCHANGED <<pool, content, idx, ran, units, waiting, remaining, listener, channel,
                 deferred_queue, world, tasks, nested, sent>>

\* A system of the running schedule starts executing.
SystemStart(u) ==
  /\ pc = "run"
  /\ can_start(u)
  /\ units' = [units EXCEPT ![u] = "running"]
  /\ UNCHANGED <<pool, content, pc, idx, ran, waiting, remaining, listener, channel,
                 deferred_queue, world, tasks, nested, sent>>

\* A running system calls scoped_task (kind "pool") or scoped_task_local
\* (kind "local"): DeferredGuard::new increments the counter, the future is
\* queued with the guard and the scope moved into it.
scoped_task(u, kind) ==
  /\ pc = "run"
  /\ units[u] = "running"
  /\ Len(tasks) < MaxTasks
  /\ waiting' = fetch_add(waiting)
  /\ tasks' = Append(tasks, [kind |-> kind, phase |-> idx, st |-> "spawned",
                             n |-> 0])
  /\ UNCHANGED <<pool, content, pc, idx, ran, units, remaining, listener, channel,
                 deferred_queue, world, nested, sent>>

\* A running system calls q_config.single() while no configuration entity
\* exists: Query::single panics and the system is over.
single_panics(u) ==
  /\ pc = "run"
  /\ units[u] = "running"
  /\ schedules[idx] \in ConfigReaders
  /\ ~file_config_exists
  /\ units' = [units EXCEPT ![u] = "panicked"]
  /\ UNCHANGED <<pool, content, pc, idx, ran, waiting, remaining, listener, channel,
                 deferred_queue, world, tasks, nested, sent>>

\* The executor resumes the unwind of a panicked system once no system is
\* executing: run_schedule, and with it run(), is left by the panic.
RunSchedulePanic ==
  /\ pc = "run"
  /\ \E u \in Units : units[u] = "panicked"
  /\ \A u \in Units : units[u] # "running"
  /\ pc' = "panicked"
  /\ UNCHANGED <<pool, content, idx, ran, units, waiting, remaining, listener, channel,
                 deferred_queue, world, tasks, nested, sent>>

\* A running system returns.
SystemFinish(u) ==
  /\ pc = "run"
  /\ units[u] = "running"
  /\ units' = [units EXCEPT ![u] = "done"]
  /\ UNCHANGED <<pool, content, pc, idx, ran, waiting, remaining, listener, channel,
                 deferred_queue, world, tasks, nested, sent>>

\* run_schedule returns; the driver turns to the local executor.
RunScheduleReturn ==
  /\ pc = "run"
  /\ schedule_finished
  /\ pc' = "tick"
  /\ UNCHANGED <<pool, content, idx, ran, units, waiting, remaining, listener, channel,
                 deferred_queue, world, tasks, nested, sent>>

\* `compute.with_local_executor(|cex| while cex.try_tick() {})` ends.
TickDone ==
  /\ pc = "tick"
  /\ local_executor_idle
  /\ pc' = "sample"
  /\ UNCHANGED <<pool, content, idx, ran, units, waiting, remaining, listener, channel,
                 deferred_queue, world, tasks, nested, sent>>

\* `let deferred_actions = ...waiting();  if deferred_actions > 0 { for .. }`
Sample ==
  /\ pc = "sample"
  /\ IF must_wait(waiting)
       THEN /\ remaining' = waiting
            /\ pc' = "listen"
       ELSE /\ remaining' = 0
            /\ pc' = "next"
  /\ UNCHANGED <<pool, content, idx, ran, units, waiting, listener, channel,
                 deferred_queue, world, tasks, nested, sent>>

\* `let listener = self.finished.listen();`
Listen ==
  /\ pc = "listen"
  /\ listener' = "registered"
  /\ pc' = "iotick"
  /\ UNCHANGED <<pool, content, idx, ran, units, waiting, remaining, channel,
                 deferred_queue, world, tasks, nested, sent>>

\* `io.with_local_executor(|iex| while iex.try_tick() {})` ends.
IoTickDone ==
  /\ pc = "iotick"
  /\ local_executor_idle
  /\ pc' = "wait"
  /\ UNCHANGED <<pool, content, idx, ran, units, waiting, remaining, listener, channel,
                 deferred_queue, world, tasks, nested, sent>>

\* wait_timeout returned Some: one iteration of the for loop is over.
WaitNotified ==
  /\ pc = "wait"
  /\ listener = "notified"
  /\ listener' = "none"
  /\ remaining' = remaining - 1
  /\ pc' = IF remaining' = 0 THEN "drain" ELSE "listen"
  /\ UNCHANGED <<pool, content, idx, ran, units, waiting, channel, deferred_queue, world,
                 tasks, nested, sent>>

\* wait_timeout returned None after 100 ms: the listener is dropped and the
\* inner loop starts over.
WaitTimeout ==
  /\ pc = "wait"
  /\ listener = "registered"
  /\ listener' = "timed_out"
  /\ remaining' = after_timeout(remaining)
  /\ pc' = "listen"
  /\ UNCHANGED <<pool, content, idx, ran, units, waiting, channel, deferred_queue, world,
                 tasks, nested, sent>>

\* `while let Ok(mut commands) = self.deferred.try_recv()`: one message.
Recv ==
  /\ pc = "drain"
  /\ channel # <<>>
  /\ deferred_queue' = append(deferred_queue, Head(channel))
  /\ channel' = Tail(channel)
  /\ UNCHANGED <<pool, content, pc, idx, ran, units, waiting, remaining, listener, world,
                 tasks, nested, sent>>

\* try_recv found the channel empty: `deferred_queue.apply(&mut self.world)`.
Apply ==
  /\ pc = "drain"
  /\ channel = <<>>
  /\ world' = apply(world, deferred_queue)
  /\ deferred_queue' = after_apply(deferred_queue)
  /\ pc' = "next"
  /\ UNCHANGED <<pool, content, idx, ran, units, waiting, remaining, listener, channel,
                 tasks, nested, sent>>

\* --------------------------------------------------------- background tasks
SetTask(t, v) == tasks' = [tasks EXCEPT ![t].st = v]

\* A faulty task wrapper: the guard is dropped while the body still runs.
body_running_late(t) == tasks[t].st \in {"spawned", "resumed", "released"}

\* The body of t is being executed: `task(scope.clone()).await` is not over.
\* The guard lives in the same future and is dropped after this await.
body_running(t) == tasks[t].st \in {"spawned", "resumed"}

\* The body may end: it is not awaiting nested work.
body_may_end(t) ==
  /\ body_running(t)
  /\ ~AwaitsNested(t)

\* A pinned task's first poll reaches an await on I/O and suspends.
TaskSuspend(t) ==
  /\ t \in TaskIds
  /\ tasks[t].kind = "local"
  /\ tasks[t].st = "spawned"
  /\ CanStep(t)
  /\ SetTask(t, "suspended")
  /\ UNCHANGED <<pool, content, pc, idx, ran, units, waiting, remaining, listener, channel,
                 deferred_queue, world, nested, sent>>

\* The awaited I/O completes: the task is runnable again.
IoReady(t) ==
  /\ t \in TaskIds
  /\ tasks[t].st = "suspended"
  /\ SetTask(t, "resumed")
  /\ UNCHANGED <<pool, content, pc, idx, ran, units, waiting, remaining, listener, channel,
                 deferred_queue, world, nested, sent>>

\* A faulty nested spawn: it takes a count that nothing ever gives back.
scope_spawn_counted(w) == w + 1

\* What DeferredScope::spawn does to the outstanding counter: nothing.  It
\* is a plain IoTaskPool spawn and creates no DeferredGuard.
scope_spawn_count(w) == w

\* DeferredScope::spawn from inside the body of t.  The body then awaits
\* the returned handle (how = "awaited") or detaches it ("detached").
scope_spawn(t, how) ==
  /\ t \in TaskIds
  /\ body_running(t)
  /\ ~AwaitsNested(t)
  /\ CanStep(t)
  /\ Len(nested) < MaxNested
  /\ nested' = Append(nested, [parent |-> t, st |-> how])
  /\ waiting' = scope_spawn_count(waiting)
  /\ UNCHANGED <<pool, content, pc, idx, ran, units, remaining, listener, channel,
                 deferred_queue, world, tasks, sent>>

\* A nested job runs to its end on the IO pool.
NestedFinish(n) ==
  /\ n \in NestedIds
  /\ nested[n].st \in {"awaited", "detached"}
  /\ nested' = [nested EXCEPT ![n].st = "done"]
  /\ UNCHANGED <<pool, content, pc, idx, ran, units, waiting, remaining, listener, channel,
                 deferred_queue, world, tasks, sent>>

\* A nested job that was handed a clone of the Arc<DeferredScope> calls
\* send on it and ends.  Its Command is <<-n, 1>>.
nested_send(n) ==
  /\ n \in NestedIds
  /\ nested[n].st \in {"awaited", "detached"}
  /\ receiver_open
  /\ channel' = try_send(channel, <<<<0 - n, 1>>>>)
  /\ nested' = [nested EXCEPT ![n].st = "done"]
  /\ UNCHANGED <<pool, content, pc, idx, ran, units, waiting, remaining, listener,
                 deferred_queue, world, tasks, sent>>

\* The same call after the Receiver is gone: try_send returns Closed, the
\* expect panics and the nested job ends.
nested_send_closed(n) ==
  /\ n \in NestedIds
  /\ nested[n].st \in {"awaited", "detached"}
  /\ ~receiver_open
  /\ nested' = [nested EXCEPT ![n].st = "done"]
  /\ UNCHANGED <<pool, content, pc, idx, ran, units, waiting, remaining, listener, channel,
                 deferred_queue, world, tasks, sent>>

\* A faulty scope: send runs the Commands against the World at once.
scope_world_direct(w, q) == w \o q

\* What DeferredScope::send does to the World: nothing.  The scope holds a
\* Sender and no reference to the World.
scope_world(w, q) == w

\* The CommandQueue a body builds with k calls of CommandQueue::push: the
\* next k Commands of task t, in push order.  Command <<t, i>> is the i-th
\* Command task t enqueues.
queue_of(t, from, k) == [i \in 1..k |-> <<t, from + i>>]

\* The body calls scope.send(queue) with a CommandQueue of k Commands; it
\* then goes on (more) or returns.
send(t, k, more) ==
  /\ t \in TaskIds
  /\ body_may_end(t)
  /\ CanStep(t)
  /\ receiver_open
  /\ tasks[t].n + k <= MaxCommands
  /\ more => tasks[t].n + k < MaxCommands
  /\ channel' = try_send(channel, queue_of(t, tasks[t].n, k))
  /\ sent' = sent \cup {t}
  /\ tasks' = [tasks EXCEPT ![t].n = @ + k,
                            ![t].st = IF more THEN @ ELSE "finished"]
  /\ world' = scope_world(world, queue_of(t, tasks[t].n, k))
  /\ UNCHANGED <<pool, content, pc, idx, ran, units, waiting, remaining, listener,
                 deferred_queue, nested>>

\* The body calls scope.send after the Receiver is gone: try_send returns
\* Closed, the expect panics, the body unwinds and the guard is dropped.
send_closed(t) ==
  /\ t \in TaskIds
  /\ body_may_end(t)
  /\ CanStep(t)
  /\ ~receiver_open
  /\ SetTask(t, "finished")
  /\ UNCHANGED <<pool, content, pc, idx, ran, units, waiting, remaining, listener, channel,
                 deferred_queue, world, nested, sent>>

\* The body ends without a further send: I/O error, panic, or nothing
\* more to enqueue.
TaskFail(t) ==
  /\ t \in TaskIds
  /\ body_may_end(t)
  /\ CanStep(t)
  /\ SetTask(t, "finished")
  /\ UNCHANGED <<pool, content, pc, idx, ran, units, waiting, remaining, listener, channel,
                 deferred_queue, world, nested, sent>>

\* DeferredGuard::drop, first half: `self.waiting.fetch_sub(1, Release)`.
GuardRelease(t) ==
  /\ t \in TaskIds
  /\ tasks[t].st = "finished"
  /\ CanStep(t)
  /\ waiting' = fetch_sub(waiting)
  /\ SetTask(t, "released")
  /\ UNCHANGED <<pool, content, pc, idx, ran, units, remaining, listener, channel,
                 deferred_queue, world, nested, sent>>

\* DeferredGuard::drop, second half: `self.finished.notify(1.relaxed())`.
GuardNotify(t) ==
  /\ t \in TaskIds
  /\ tasks[t].st = "released"
  /\ CanStep(t)
  /\ listener' = notify(listener)
  /\ SetTask(t, "done")
  /\ UNCHANGED <<pool, content, pc, idx, ran, units, waiting, remaining, channel,
                 deferred_queue, world, nested, sent>>

\* ------------------------------------------------------------ specification
Driver ==
  \/ StartSchedule
  \/ Return
  \/ RunScheduleReturn
  \/ RunSchedulePanic
  \/ TickDone
  \/ Sample
  \/ Listen
  \/ IoTickDone
  \/ WaitNotified
  \/ WaitTimeout
  \/ Recv
  \/ Apply
  \/ DropApp

Systems ==
  \E u \in Units :
    \/ SystemStart(u)
    \/ single_panics(u)
    \/ \E kind \in {"pool", "local"} : scoped_task(u, kind)
    \/ SystemFinish(u)

Background ==
  \E t \in 1..MaxTasks :
    \/ TaskSuspend(t)
    \/ IoReady(t)
    \/ \E how \in {"awaited", "detached"} : scope_spawn(t, how)
    \/ send(t, 1, FALSE)
    \/ send_closed(t)
    \/ TaskFail(t)
    \/ GuardRelease(t)
    \/ GuardNotify(t)

Nested == \E n \in 1..MaxNested : NestedFinish(n)

\* The program as src/main.rs assembles it: every task body of the three
\* processors sends at most one CommandQueue, and no nested job is handed
\* the scope.
Next == Driver \/ Systems \/ Background \/ Nested

Spec == Init /\ [][Next]_vars

\* Every use the DeferredScope interface allows on top of that: a body that
\* pushes several Commands into one CommandQueue or sends several queues,
\* and nested work that sends through a clone of the scope.
ScopeUses ==
  \/ \E t \in 1..MaxTasks, k \in 1..MaxCommands, more \in BOOLEAN :
        (k > 1 \/ more) /\ send(t, k, more)
  \/ \E n \in 1..MaxNested : nested_send(n) \/ nested_send_closed(n)

ApiNext == Next \/ ScopeUses

ApiSpec == Init /\ [][ApiNext]_vars

\* Every thread keeps running and every spawned task eventually finishes:
\* the driving thread, the systems it executes, every counted task and every
\* nested job take their next step whenever they have one.
TaskStep(t) ==
  \/ IoReady(t)
  \/ send(t, 1, FALSE)
  \/ send_closed(t)
  \/ TaskFail(t)
  \/ GuardRelease(t)
  \/ GuardNotify(t)

FairSpec ==
  /\ Spec
  /\ WF_vars(Driver)
  /\ WF_vars(Systems)
  /\ WF_vars(Nested)
  /\ \A t \in 1..MaxTasks : WF_vars(TaskStep(t))

\* ------------------------------------------------- the Process schedule
\* The systems MarkdownProcessor and TeraProcessor register to Process.
\* "parse_markdown" is the piped system parse_markdown.pipe(handle_io_error).
ProcessSystems ==
  {"parse_markdown", "parse_frontmatter", "convert_markdown_to_html",
   "index_sections", "index_templates"}

\* A faulty registration: the .after(..) constraints are left out.
run_after_none == [s \in ProcessSystems |-> {}]

\* The .after(Self::parse_markdown) constraints of MarkdownProcessor.
run_after ==
  [s \in ProcessSystems |->
     IF s \in {"parse_frontmatter", "convert_markdown_to_html",
               "index_sections"}
       THEN {"parse_markdown"}
       ELSE {}]

\* run_schedule(Process) has been entered.  The Preload task (init_config)
\* has either had its Command applied, so the configuration entity exists,
\* or has failed and left the World empty.
ProcessInit ==
  /\ no_content
  /\ threads = HostThreads
  /\ compute_threads = compute_pool_size(threads)
  /\ io_threads = io_pool_size(threads)
  /\ pc = "run"
  /\ idx = 3
  /\ ran = SubSeq(schedules, 1, 3)
  /\ units = [s \in ProcessSystems |-> "idle"]
  /\ waiting = 0
  /\ remaining = 0
  /\ listener = "none"
  /\ channel = <<>>
  /\ deferred_queue = <<>>
  /\ nested = <<>>
  /\ \E loaded \in BOOLEAN :
       /\ tasks = <<[kind |-> "pool", phase |-> 1, st |-> "done",
                     n |-> IF loaded THEN 1 ELSE 0]>>
       /\ sent = IF loaded THEN {1} ELSE {}
       /\ world = IF loaded THEN <<<<1, 1>>>> ELSE <<>>

\* The MultiThreaded executor starts a system once every system it was
\* ordered after has completed.
process_start(s) ==
  /\ pc = "run"
  /\ units[s] = "idle"
  /\ \A d \in run_after[s] : units[d] = "done"
  /\ units' = [units EXCEPT ![s] = "running"]
  /\ UNCHANGED <<pool, content, pc, idx, ran, waiting, remaining, listener, channel,
                 deferred_queue, world, tasks, nested, sent>>

\* parse_markdown returns its io::Result, Ok or Err, which the pipe hands
\* to handle_io_error; without a configuration entity its q_config.single()
\* panics instead.
parse_markdown(result) ==
  /\ pc = "run"
  /\ units["parse_markdown"] = "running"
  /\ units' = [units EXCEPT !["parse_markdown"] =
                  IF file_config_exists THEN result ELSE "panicked"]
  /\ UNCHANGED <<pool, content, pc, idx, ran, waiting, remaining, listener, channel,
                 deferred_queue, world, tasks, nested, sent>>

\* handle_io_error logs an Err; the piped system has completed.
handle_io_error ==
  /\ pc = "run"
  /\ units["parse_markdown"] \in {"Ok", "Err"}
  /\ units' = [units EXCEPT !["parse_markdown"] = "done"]
  /\ UNCHANGED <<pool, content, pc, idx, ran, waiting, remaining, listener, channel,
                 deferred_queue, world, tasks, nested, sent>>

\* Any other system of the schedule returns.
process_finish(s) ==
  /\ pc = "run"
  /\ s # "parse_markdown"
  /\ units[s] = "running"
  /\ units' = [units EXCEPT ![s] = "done"]
  /\ UNCHANGED <<pool, content, pc, idx, ran, waiting, remaining, listener, channel,
                 deferred_queue, world, tasks, nested, sent>>

\* run_schedule(Process) returns, or is left by the panic of a system once
\* no system is executing.
process_return ==
  /\ pc = "run"
  /\ \A s \in ProcessSystems : units[s] \notin {"running", "Ok", "Err"}
  /\ \/ /\ \A s \in ProcessSystems : units[s] = "done"
        /\ pc' = "tick"
     \/ /\ \E s \in ProcessSystems : units[s] = "panicked"
        /\ pc' = "panicked"
  /\ UNCHANGED <<pool, content, idx, ran, units, waiting, remaining, listener,
                 channel, deferred_queue, world, tasks, nested, sent>>

ProcessNext ==
  \/ \E s \in ProcessSystems : process_start(s) \/ process_finish(s)
  \/ \E result \in {"Ok", "Err"} : parse_markdown(result)
  \/ handle_io_error
  \/ process_return

ProcessSpec == ProcessInit /\ [][ProcessNext]_vars

\* ------------------------------------------------ the front-matter parser
\* Text is a sequence of characters.  "+" builds delimiters, "e" is the
\* excerpt delimiter, " " is whitespace and "a" is any other character.
Alphabet == {"+", "e", " ", "a"}

RECURSIVE Texts(_)
Texts(n) ==
  IF n = 0 THEN {<<>>}
  ELSE Texts(n - 1) \cup
       {Append(t, ch) : t \in {x \in Texts(n - 1) : Len(x) = n - 1},
                        ch \in Alphabet}

\* An Option: None is <<>>, Some(x) is <<x>>.
None == <<>>
Some(x) == <<x>>

\* str::starts_with
starts_with(text, d) ==
  Len(text) >= Len(d) /\ SubSeq(text, 1, Len(d)) = d

\* Index of the first match of d in text, 0 when there is none.
find(text, d) ==
  LET hits == {i \in 1..(Len(text) - Len(d) + 1) :
                 SubSeq(text, i, i + Len(d) - 1) = d}
  IN  IF hits = {} THEN 0 ELSE CHOOSE i \in hits : \A j \in hits : i <= j

\* A faulty prefix test: the delimiter is looked for anywhere in the page.
strip_anywhere(text, d) ==
  IF find(text, d) = 0 THEN None
  ELSE Some(SubSeq(text, find(text, d) + Len(d), Len(text)))

\* str::strip_prefix
strip_prefix(text, d) ==
  IF starts_with(text, d)
    THEN Some(SubSeq(text, Len(d) + 1, Len(text)))
    ELSE None

\* str::split: the pieces between the non-overlapping matches of d, found
\* from the left.
RECURSIVE split(_, _)
split(text, d) ==
  LET i == find(text, d)
  IN  IF i = 0 THEN <<text>>
      ELSE <<SubSeq(text, 1, i - 1)>>
             \o split(SubSeq(text, i + Len(d), Len(text)), d)

\* str::split_terminator: as split, without a trailing empty piece.
split_terminator(text, d) ==
  LET pieces == split(text, d)
  IN  IF pieces[Len(pieces)] = <<>>
        THEN SubSeq(pieces, 1, Len(pieces) - 1)
        ELSE pieces

\* str::split_once: the text before and after the first match of d.
split_once(text, d) ==
  LET i == find(text, d)
  IN  IF i = 0 THEN None
      ELSE Some(<<SubSeq(text, 1, i - 1),
                  SubSeq(text, i + Len(d), Len(text))>>)

\* str::trim: leading and trailing whitespace removed.
RECURSIVE trim(_)
trim(text) ==
  IF text = <<>> THEN text
  ELSE IF Head(text) = " " THEN trim(Tail(text))
  ELSE IF text[Len(text)] = " " THEN trim(SubSeq(text, 1, Len(text) - 1))
  ELSE text

\* toml::from_str(..).ok(): over this alphabet a document is valid TOML
\* exactly when it holds nothing but whitespace, and is then the empty
\* Table; "a", "e" and "+" can form no key/value line, table or comment.
toml_from_str(text) == IF trim(text) = <<>> THEN Some("Table") ELSE None

\* Iterator::next on the pieces: the k-th piece, if there is one.
next(pieces, k) == IF k <= Len(pieces) THEN Some(pieces[k]) ELSE None

\* Parser::parse
parse(d, ex, text) ==
  LET stripped == strip_prefix(text, d)
  IN  IF stripped = None THEN None
      ELSE
        LET split_text == split_terminator(stripped[1], d)
            first == next(split_text, 1)
            matter == IF first = None THEN None ELSE toml_from_str(first[1])
            body == next(split_text, 2)
            cut == IF body = None \/ ex = None THEN None
                   ELSE split_once(body[1], ex[1])
        IN  Some([matter |-> matter,
                  excerpt |-> IF cut = None THEN None
                              ELSE Some(trim(cut[1][1])),
                  content |-> IF cut # None THEN trim(cut[1][2])
                              ELSE IF body = None THEN trim(text)
                              ELSE trim(body[1])])

\* A parser has been built, with or without an excerpt delimiter, and a
\* page has been read.
ParseInit ==
  /\ delimiter \in {<<"+">>, <<"+", "+">>}
  /\ excerpt \in {None, Some(<<"e">>)}
  /\ page \in Texts(MaxPageLen)
  /\ parsed = None
  /\ pc = "parse"
  /\ path = <<>>
  /\ page_type = "none"
  /\ section_index = {}
  /\ associated = "none"
  /\ threads = HostThreads
  /\ compute_threads = compute_pool_size(threads)
  /\ io_threads = io_pool_size(threads)
  /\ idx = 0
  /\ ran = <<>>
  /\ units = [u \in Units |-> "idle"]
  /\ waiting = 0
  /\ remaining = 0
  /\ listener = "none"
  /\ channel = <<>>
  /\ deferred_queue = <<>>
  /\ world = <<>>
  /\ tasks = <<>>
  /\ nested = <<>>
  /\ sent = {}

\* `matter.parse(body)`
parser_parse ==
  /\ pc = "parse"
  /\ parsed' = parse(delimiter, excerpt, page)
  /\ pc' = "parsed"
  /\ UNCHANGED <<pool, paths_io, delimiter, excerpt, page, idx, ran, units,
                 waiting, remaining, listener, channel, deferred_queue,
                 world, tasks, nested, sent>>

ParseNext == parser_parse

ParseSpec == ParseInit /\ [][ParseNext]_vars

\* ------------------------------------------------- page classification
\* A relative path is the sequence of its components.
Names == {"_index.md", "index.md", "post.md", "blog"}

RECURSIVE Paths(_)
Paths(n) ==
  IF n = 0 THEN {<<>>}
  ELSE Paths(n - 1) \cup
       {Append(p, c) : p \in {x \in Paths(n - 1) : Len(x) = n - 1},
                       c \in Names}

\* Path::parent: the path without its last component; None for the empty
\* path.
parent(p) == IF p = <<>> THEN None ELSE Some(SubSeq(p, 1, Len(p) - 1))

\* Path::ends_with(child) for a child of one component: whole components
\* are compared.
ends_with(p, child) == p # <<>> /\ p[Len(p)] = child

\* `dir.to_str().is_some_and(str::is_empty)`
is_root(dir) == dir = <<>>

\* The page type index_sections works out for a path; parent().unwrap()
\* panics on the empty path.
index_sections_page_type(p) ==
  IF parent(p) = None THEN "panic"
  ELSE IF ~ends_with(p, "_index.md")
         THEN IF is_root(parent(p)[1]) THEN "Page" ELSE "Post"
         ELSE IF is_root(parent(p)[1]) THEN "Index" ELSE "Section"

\* `section_index.0.entry(dir.to_path_buf()).or_default()`, then
\* `indexed.push(page)` when the page is not an _index.md page.
index_sections_entry(index, p) ==
  IF parent(p) = None THEN index
  ELSE LET dir == parent(p)[1]
           old == IF \E e \in index : e.dir = dir
                    THEN (CHOOSE e \in index : e.dir = dir).pages
                    ELSE <<>>
       IN  {e \in index : e.dir # dir} \cup
           {[dir |-> dir,
             pages |-> IF ~ends_with(p, "_index.md")
                         THEN Append(old, p) ELSE old]}

\* A faulty classification: the directory is not looked at for an
\* _index.md page.
associate_page_type_flat(p) ==
  IF parent(p) = None THEN "panic"
  ELSE IF ~ends_with(p, "_index.md")
         THEN IF is_root(parent(p)[1]) THEN "Page" ELSE "Post"
         ELSE "Index"

\* The page type associate_pages_to_templates works out for a path.
associate_page_type(p) ==
  IF parent(p) = None THEN "panic"
  ELSE IF ~ends_with(p, "_index.md")
         THEN IF is_root(parent(p)[1]) THEN "Page" ELSE "Post"
         ELSE IF is_root(parent(p)[1]) THEN "Index" ELSE "Section"

\* A page with a relative path has been spawned.
PathInit ==
  /\ path \in Paths(MaxDepth)
  /\ page_type = "none"
  /\ section_index = {}
  /\ associated = "none"
  /\ pc = "index"
  /\ delimiter = <<>>
  /\ excerpt = <<>>
  /\ page = <<>>
  /\ parsed = <<>>
  /\ threads = HostThreads
  /\ compute_threads = compute_pool_size(threads)
  /\ io_threads = io_pool_size(threads)
  /\ idx = 0
  /\ ran = <<>>
  /\ units = [u \in Units |-> "idle"]
  /\ waiting = 0
  /\ remaining = 0
  /\ listener = "none"
  /\ channel = <<>>
  /\ deferred_queue = <<>>
  /\ world = <<>>
  /\ tasks = <<>>
  /\ nested = <<>>
  /\ sent = {}

\* MarkdownProcessor::index_sections, for the one page.
index_sections ==
  /\ pc = "index"
  /\ page_type' = index_sections_page_type(path)
  /\ section_index' = index_sections_entry(section_index, path)
  /\ pc' = "associate"
  /\ UNCHANGED <<pool, parser_io, path, associated, idx, ran, units, waiting,
                 remaining, listener, channel, deferred_queue, world, tasks,
                 nested, sent>>

\* TeraProcessor::associate_pages_to_templates, for the one page.
associate_pages_to_templates ==
  /\ pc = "associate"
  /\ associated' = associate_page_type(path)
  /\ pc' = "classified"
  /\ UNCHANGED <<pool, parser_io, path, page_type, section_index, idx, ran,
                 units, waiting, remaining, listener, channel,
                 deferred_queue, world, tasks, nested, sent>>

PathNext == index_sections \/ associate_pages_to_templates

PathSpec == PathInit /\ [][PathNext]_vars

\* ------------------------------------------------------------------ helpers
\* The Commands applied to the World so far.
Applied == Range(world)

\* The Commands the body of task t has enqueued so far.
Enqueued(t) == {<<t, i>> : i \in 1..tasks[t].n}

\* The driver has left the barrier of the phase that spawned task t.
PastBarrier(t) ==
  \/ idx > tasks[t].phase
  \/ idx = tasks[t].phase /\ pc \in {"next", "returned"}

\* ------------------------------------------------------------------- claims

\* C1: every Command enqueued by a background task of phase k is applied to
\* the World before any work unit of phase k+1 starts.
C1_AppliedBeforeNextPhase ==
  \A t \in TaskIds :
    (/\ tasks[t].phase < idx
     /\ \E u \in Units : units[u] # "idle"
     /\ t \in sent) => Enqueued(t) \subseteq Applied

\* C2: when run() returns, every Command enqueued during the run has been
\* applied to the World and the channel is empty.
C2_NothingLostAtReturn ==
  pc = "returned" => (channel = <<>> /\ \A t \in sent : Enqueued(t) \subseteq Applied)

\* C3: when every spawned task eventually finishes, every barrier wait ends
\* and run() eventually returns (or is left by the panic of a system).
C3_RunReturns == <>(pc \in {"returned", "panicked"})

\* C4: barrier exclusivity.  While the driver receives from the channel or
\* holds received Commands to apply, no work unit is executing: every unit
\* of the current phase has returned; and a unit executes only inside
\* run_schedule.
C4_BarrierExclusive ==
  /\ (pc = "drain" \/ deferred_queue # <<>>) =>
        \A u \in Units : units[u] = "done"
  /\ (\E u \in Units : units[u] = "running") => pc = "run"

C4_Witness == pc = "drain" /\ deferred_queue # <<>> /\ channel # <<>>

\* C5: when the driver starts draining the channel, or is about to start the
\* next phase, the outstanding counter is zero.
C5_CounterZeroAtBoundary == pc \in {"drain", "next"} => waiting = 0

\* C6: the five phases run exactly once each in the order Preload, Load,
\* Process, PostProcess, Write; a phase starts only from the head of the for
\* loop, after the previous phase's units have all returned and its barrier
\* step is over; run() returns after all five.
C6_PhaseOrder ==
  /\ [](LET order == <<"Preload", "Load", "Process", "PostProcess", "Write">>
        IN  /\ Len(ran) = idx
            /\ Len(ran) <= Len(order)
            /\ ran = SubSeq(order, 1, Len(ran))
            /\ (pc = "returned" => ran = order))
  /\ [][ran' # ran =>
          /\ pc = "next"
          /\ deferred_queue = <<>>
          /\ (ran = <<>> \/ \A u \in Units : units[u] = "done")
          /\ ran' = Append(ran, ran'[Len(ran')])]_vars

C6_Witness == pc = "returned" /\ Len(ran) = 5 /\ Len(world) > 0

\* C7: accounting conservation.  The counter equals the number of guards
\* that have been created and not yet dropped, is never negative (the u32
\* never wraps below zero), and is zero once every spawned task has dropped
\* its guard, whether the body sent a Command or ended without one.
C7_Accounting ==
  /\ waiting = Cardinality({t \in TaskIds :
                 tasks[t].st \in {"spawned", "suspended", "resumed",
                                  "finished"}})
  /\ waiting >= 0
  /\ (\A t \in TaskIds : tasks[t].st \in {"released", "done"}) => waiting = 0

C7_Witness ==
  /\ Len(tasks) = MaxTasks
  /\ \A t \in TaskIds : tasks[t].st = "done"
  /\ \E t \in TaskIds : t \notin sent
  /\ waiting = 0

C9_PinnedAppliedAtBarrier ==
  \A t \in TaskIds :
    (tasks[t].kind = "local" /\ PastBarrier(t)) =>
      /\ tasks[t].st = "done"
      /\ t \in sent => Enqueued(t) \subseteq Applied

\* C10: in a phase whose work units spawn no background task the driver
\* registers no listener, waits on nothing and receives nothing.
C10_IdleFastPath ==
  (idx > 0 /\ \A t \in TaskIds : tasks[t].phase # idx) =>
     pc \notin {"listen", "iotick", "wait", "drain"}

\* The body of task t is over and has sent nothing: the path an I/O failure
\* takes in init_config and read_directory_task.
Failed(t) ==
  IF t \in TaskIds
    THEN tasks[t].st \in {"finished", "released", "done"} /\ tasks[t].n = 0
    ELSE FALSE

\* The Commands held by the channel, in dequeue order.
RECURSIVE Flatten(_)
Flatten(ch) == IF ch = <<>> THEN <<>> ELSE Head(ch) \o Flatten(Tail(ch))

\* C11: a background task that hits an I/O failure enqueues no Command and
\* leaves the World unchanged, its guard is released exactly once (the
\* counter never goes below zero and is zero once all guards are dropped),
\* and the barrier of its phase still clears: the driver gets past it
\* unless run() has been left by a panic.
C11_FailedTaskClears ==
  /\ [](\A t \in TaskIds :
          Failed(t) =>
            /\ \A c \in Range(Flatten(channel)) \cup Range(deferred_queue)
                       \cup Applied : c[1] # t
            /\ waiting >= 0
            /\ tasks[t].st = "done" =>
                  waiting = Cardinality({x \in TaskIds :
                               tasks[x].st \in {"spawned", "suspended",
                                                "resumed", "finished"}}))
  /\ \A t \in 1..MaxTasks :
       Failed(t) ~>
          (pc \in {"panicked", "dropped"} \/ (t \in TaskIds /\ PastBarrier(t)))

\* C12: a failed background task never aborts the pipeline.  Once a task of
\* the Preload phase has failed (the configuration read), no work unit
\* panics and run() is not left by a panic: the remaining phases would run
\* and run() return normally.
C12_FailureNeverAborts ==
  [][(\E t \in TaskIds : Failed(t) /\ tasks[t].phase = 1) =>
        /\ \A u \in Units : units'[u] = "panicked" => units[u] = "panicked"
        /\ pc' = "panicked" => pc = "panicked"]_vars

\* The Commands that have been enqueued and not lost: still in the channel,
\* received into the local queue, or applied.
Delivered == Range(Flatten(channel)) \cup Range(deferred_queue) \cup Applied

\* C13: every enqueue made by a task body happens before that task's
\* counter decrement: the body of a task whose guard has been released
\* enqueues nothing more.  Hence, whenever the counter is zero, every
\* spawned task has been released and every Command its body enqueued is
\* already in the channel (or has been received from it).
C13_SendBeforeRelease ==
  /\ [][\A t \in TaskIds :
          tasks'[t].n > tasks[t].n =>
            /\ tasks[t].st \notin {"finished", "released", "done"}
            /\ waiting > 0]_vars
  /\ [](waiting = 0 =>
          \A t \in TaskIds :
            /\ tasks[t].st \in {"released", "done"}
            /\ Enqueued(t) \subseteq Delivered)

C13_Witness ==
  /\ pc = "sample"
  /\ waiting = 0
  /\ \E t \in TaskIds :
       /\ tasks[t].phase = idx
       /\ tasks[t].n = MaxCommands
       /\ Enqueued(t) \subseteq Range(Flatten(channel))
       /\ Len(channel) = 2

\* The task whose DeferredScope Command c was enqueued through: the task
\* itself, or the parent of the nested job that was handed a clone.
ScopeOwner(c) == IF c[1] > 0 THEN c[1] ELSE nested[0 - c[1]].parent

\* The Command a step has just enqueued.
LastSent(ch) == ch[Len(ch)][1]

\* C14 as stated: no Command is enqueued through a Deferred Scope, or a
\* clone of it, once the guard of the task that created the scope has been
\* released.
C14_NoEnqueueAfterRelease ==
  [][Len(channel') > Len(channel) =>
       tasks[ScopeOwner(LastSent(channel'))].st
          \notin {"released", "done"}]_vars

\* C14 amended: the guard bounds the sends of the task body only.  A body
\* enqueues only while it runs, its guard not yet released; nested work
\* the body awaits enqueues only before the parent's release; a clone of
\* the scope held by nested work stays usable whatever the parent's guard
\* has done, as long as the Receiver exists.  No enqueue changes the
\* counter.
C14_GuardBoundsBodyOnly ==
  [][Len(channel') > Len(channel) =>
       LET c == LastSent(channel')
       IN  /\ receiver_open
           /\ waiting' = waiting
           /\ c[1] > 0 => tasks[c[1]].st \in {"spawned", "resumed"}
           /\ c[1] < 0 =>
                 /\ nested[0 - c[1]].st \in {"awaited", "detached"}
                 /\ nested[0 - c[1]].st = "awaited" =>
                       tasks[ScopeOwner(c)].st \notin {"released", "done"}]_vars

C14_Witness ==
  \E n \in NestedIds :
    /\ <<0 - n, 1>> \in Range(Flatten(channel))
    /\ tasks[nested[n].parent].st = "done"
    /\ Enqueued(nested[n].parent) # {}
    /\ Enqueued(nested[n].parent) \subseteq Applied
    /\ waiting = 0

\* Sequence q keeps the Commands of each task in enqueue order.
TaskOrdered(q) ==
  \A i, j \in 1..Len(q) :
    (i < j /\ q[i][1] = q[j][1]) => q[i][2] < q[j][2]

\* C15: the driver applies Commands in the order it dequeued them, which is
\* the order their sends completed; two Commands of one task, pushed into
\* one CommandQueue or sent in two successive ones, are applied in the
\* order the task enqueued them.
C15_AppliedInOrder ==
  /\ [](TaskOrdered(world \o deferred_queue \o Flatten(channel)))
  /\ [][world' # world =>
          /\ pc = "drain"
          /\ world' = world \o deferred_queue]_vars
  /\ [][Len(deferred_queue') > Len(deferred_queue) =>
          /\ deferred_queue' = deferred_queue \o Head(channel)
          /\ channel' = Tail(channel)]_vars

C15_Witness ==
  \E i, j, k \in 1..Len(world) :
    /\ i < j /\ j < k
    /\ world[i][1] = world[k][1]
    /\ world[i][2] = 1 /\ world[k][2] = 2
    /\ world[j][1] # world[i][1]

\* Sequence q holds no Command twice.
NoDuplicate(q) == \A i, j \in 1..Len(q) : i # j => q[i] # q[j]

\* C16: no Command is applied to the World more than once over a run: a
\* Command that has been applied is neither applied twice nor still held by
\* the local queue or the channel for a later barrier.
C16_AppliedOnce == NoDuplicate(world \o deferred_queue \o Flatten(channel))

C16_Witness ==
  /\ pc = "next"
  /\ Len(world) >= 3
  /\ \E i, j \in 1..Len(world) :
       /\ world[i][1] \in TaskIds /\ world[j][1] \in TaskIds
       /\ tasks[world[i][1]].phase < tasks[world[j][1]].phase

\* The least integer that is at least t / d.
Ceiling(t, d) == CHOOSE k \in 0..t : k * d >= t /\ (k - 1) * d < t

\* C17: for every hardware parallelism T >= 1 the pools are built with
\* compute_threads = max(1, ceil(T/2) - 1) and io_threads =
\* min(6, ceil(T/4)); both are at least 1, io_threads is at most 6, and
\* T = 1, 8, 100 give (1,1), (3,2), (49,6).
C17_PoolSizes ==
  pc # "new" =>
    /\ threads >= 1
    /\ LET half == Ceiling(threads, 2) - 1
       IN  compute_threads = IF half > 1 THEN half ELSE 1
    /\ LET quarter == Ceiling(threads, 4)
       IN  io_threads = IF quarter < 6 THEN quarter ELSE 6
    /\ compute_threads >= 1
    /\ io_threads >= 1
    /\ io_threads <= 6
    /\ threads = 1 => (compute_threads = 1 /\ io_threads = 1)
    /\ threads = 8 => (compute_threads = 3 /\ io_threads = 2)
    /\ threads = 100 => (compute_threads = 49 /\ io_threads = 6)

C17_Witness ==
  /\ pc # "new"
  /\ threads = 100
  /\ compute_threads = 49
  /\ io_threads = 6

\* C18: in the parallel Process phase parse_frontmatter,
\* convert_markdown_to_html and index_sections never start before the piped
\* system parse_markdown | handle_io_error has completed; nothing else
\* orders these three and index_templates, which may run concurrently.
C18_AfterParseMarkdown ==
  \A s \in {"parse_frontmatter", "convert_markdown_to_html",
             "index_sections"} :
    units[s] # "idle" => units["parse_markdown"] = "done"

C18_Witness ==
  /\ units["parse_markdown"] = "done"
  /\ units["index_sections"] = "done"
  /\ units["parse_frontmatter"] = "idle"
  /\ units["convert_markdown_to_html"] = "running"
  /\ units["index_templates"] = "running"

\* C19: DeferredScope::send never fails in a run that no panic has cut
\* short: whenever a task body can make its next step a call of send, the
\* channel's Receiver still exists, so try_send on the unbounded channel
\* returns Ok and the expect does not panic.
C19_SendNeverFails ==
  (\A u \in Units : units[u] # "panicked") =>
     \A t \in TaskIds : (body_may_end(t) /\ CanStep(t)) => receiver_open

\* C20: the 100 ms timeout is only a polling interval.  A wait that times
\* out counts no task as finished, cancels no task and does not advance
\* the driver: it goes back to listening.  The iterations left decrease,
\* and the driver leaves the wait loop, only on a received notification.
C20_TimeoutOnlyPolls ==
  /\ [][(pc = "wait" /\ pc' # "wait" /\ listener = "registered") =>
          /\ pc' = "listen"
          /\ remaining' = remaining
          /\ waiting' = waiting
          /\ idx' = idx
          /\ tasks' = tasks
          /\ nested' = nested]_vars
  /\ [][remaining' < remaining =>
          (pc = "wait" /\ listener = "notified")]_vars
  /\ [][(pc \in {"listen", "iotick", "wait"}
          /\ pc' \notin {"listen", "iotick", "wait"}) =>
          (pc = "wait" /\ listener = "notified")]_vars

C20_Witness ==
  /\ pc = "listen"
  /\ listener = "timed_out"
  /\ remaining = 2
  /\ \E t \in TaskIds : tasks[t].st = "suspended" /\ tasks[t].phase = idx
  /\ \E t \in TaskIds : tasks[t].st = "spawned" /\ tasks[t].phase = idx

\* C21: background tasks never change the World directly.  No step that
\* moves a task or a nested job, and no enqueue, changes the World; the
\* World changes only when the driver, at a barrier, applies the Commands
\* it has drained, and that step moves no task.
C21_WorldFrame ==
  /\ [][(tasks' # tasks \/ nested' # nested
          \/ Len(channel') > Len(channel)) => world' = world]_vars
  /\ [][world' # world =>
          /\ pc = "drain" /\ pc' = "next"
          /\ tasks' = tasks /\ nested' = nested /\ channel' = channel]_vars

C21_Witness ==
  /\ world # <<>>
  /\ \E t \in TaskIds :
       /\ tasks[t].st = "done"
       /\ tasks[t].n = MaxCommands
       /\ Enqueued(t) \cap Applied = {}
       /\ Enqueued(t) \subseteq Range(Flatten(channel))

\* Text d stands at the very start of text t.
IsPrefix(d, t) == Len(d) <= Len(t) /\ \A i \in 1..Len(d) : t[i] = d[i]

\* Text d occurs somewhere in text t.
Occurs(d, t) ==
  \E i \in 1..Len(t) :
    i + Len(d) - 1 <= Len(t) /\ \A j \in 1..Len(d) : t[i + j - 1] = d[j]

\* C22: parse returns None exactly when the page does not start with the
\* delimiter.  For a page that starts with it parse returns Some, also when
\* no closing delimiter follows and when the front matter is not valid
\* TOML, in which case matter is None.
C22_NoneIffNoOpeningDelimiter ==
  pc = "parsed" =>
    /\ parsed = None <=> ~IsPrefix(delimiter, page)
    /\ IsPrefix(delimiter, page) =>
          /\ Len(parsed) = 1
          /\ (\E i \in (Len(delimiter) + 1)..Len(page) :
                 page[i] \in {"a", "e"}
                 /\ ~Occurs(delimiter,
                            SubSeq(page, Len(delimiter) + 1, i)))
               => parsed[1].matter = None

C22_Witness ==
  /\ pc = "parsed"
  /\ delimiter = <<"+", "+">>
  /\ page = <<"+", "+", "a", "+", " ">>
  /\ parsed # None
  /\ parsed[1].matter = None

\* Where the closing delimiter starts in a page that opens with d: the first
\* place after the opening delimiter where d stands; 0 when there is none.
ClosingAt(d, t) ==
  LET at == {i \in (Len(d) + 1)..Len(t) :
               IsPrefix(d, SubSeq(t, i, Len(t)))}
  IN  IF at = {} THEN 0 ELSE CHOOSE i \in at : \A j \in at : i <= j

\* The page has the form delimiter + matter + delimiter + body.
HasBody(d, t) == IsPrefix(d, t) /\ ClosingAt(d, t) > 0

\* The text after the closing delimiter.
BodyOf(d, t) == SubSeq(t, ClosingAt(d, t) + Len(d), Len(t))

\* Where text e first stands in text t; 0 when it does not occur.
FirstAt(e, t) ==
  LET at == {i \in 1..Len(t) : IsPrefix(e, SubSeq(t, i, Len(t)))}
  IN  IF at = {} THEN 0 ELSE CHOOSE i \in at : \A j \in at : i <= j

\* C23: for a page delimiter + matter + delimiter + body parsed with an
\* excerpt delimiter that occurs in body, excerpt is the trimmed text of body
\* before the first excerpt delimiter and content the trimmed text of body
\* after it; with no excerpt delimiter configured, or none in body, excerpt is
\* None and content is the whole trimmed body.
C23_ExcerptSplitsBody ==
  (pc = "parsed" /\ HasBody(delimiter, page)) =>
    LET body == BodyOf(delimiter, page)
        at == IF excerpt = None THEN 0 ELSE FirstAt(excerpt[1], body)
    IN  IF at > 0
          THEN /\ parsed[1].excerpt = Some(trim(SubSeq(body, 1, at - 1)))
               /\ parsed[1].content =
                    trim(SubSeq(body, at + Len(excerpt[1]), Len(body)))
          ELSE /\ parsed[1].excerpt = None
               /\ parsed[1].content = trim(body)

\* C27: with no excerpt delimiter configured, the content of a page that
\* opens with the delimiter and has a closing delimiter is the complete
\* trimmed text after the closing delimiter, further delimiters included; and
\* when no text follows the front-matter segment, content holds neither the
\* delimiter nor the front-matter text.
C27_ContentIsWholeRemainder ==
  (pc = "parsed" /\ excerpt = None /\ IsPrefix(delimiter, page)) =>
    /\ HasBody(delimiter, page) =>
         parsed[1].content = trim(BodyOf(delimiter, page))
    /\ (~HasBody(delimiter, page) \/ BodyOf(delimiter, page) = <<>>) =>
         ~Occurs(delimiter, parsed[1].content)

\* Task t has been suspended at an await: on I/O, or on the handle of
\* nested work it spawned.
HasSuspended(t) ==
  \/ tasks[t].st \in {"suspended", "resumed"}
  \/ \E n \in NestedIds :
       nested[n].parent = t /\ nested[n].st \in {"awaited", "done"}

\* C24: between the return of run_schedule and the read of the counter the
\* driver ticks the local executor until nothing is runnable: the counter is
\* read only from a tick that ended with no runnable pinned task, and at the
\* read every pinned task that has not suspended has enqueued its Commands
\* and finished its guard's drop.
C24_LocalExhaustedBeforeSample ==
  /\ [](pc = "sample" =>
          \A t \in TaskIds :
            tasks[t].kind = "local" =>
              /\ tasks[t].st \notin {"finished", "released"}
              /\ ~HasSuspended(t) =>
                   /\ tasks[t].st = "done"
                   /\ tasks[t].n > 0 => <<t, 1>> \in Delivered)
  /\ [][(pc' = "tick" /\ pc # "tick") => pc = "run"]_vars
  /\ [][(pc' = "sample" /\ pc # "sample") =>
          /\ pc = "tick"
          /\ \A t \in TaskIds :
               tasks[t].kind = "local" =>
                 \/ tasks[t].st \in {"suspended", "done"}
                 \/ AwaitsNested(t)]_vars

C24_Witness ==
  /\ pc = "sample"
  /\ waiting = 0
  /\ \E t \in TaskIds :
       /\ tasks[t].kind = "local"
       /\ tasks[t].phase = idx
       /\ tasks[t].st = "done"
       /\ tasks[t].n = 1
       /\ ~HasSuspended(t)

\* C25: a phase boundary whose counter sample is zero receives nothing and
\* applies nothing: the channel, the local queue and the World are left as
\* they are.  The channel is received from only in the barrier block of a
\* boundary whose sample was non-zero, from its head and until it is empty,
\* while sends add at its tail, and what was received is applied in that
\* order: Commands left in the channel at a zero sample are applied at the
\* first later boundary with a non-zero sample, ahead of the Commands
\* enqueued after them.
C25_ZeroSampleSkipsDrain ==
  /\ [][(pc = "sample" /\ waiting = 0 /\ pc' # pc) =>
          /\ pc' = "next"
          /\ channel' = channel
          /\ deferred_queue' = deferred_queue
          /\ world' = world]_vars
  /\ [][(pc = "sample" /\ pc' = "listen") => waiting > 0]_vars
  /\ [][(pc' = "listen" /\ pc # "listen") => pc \in {"sample", "wait"}]_vars
  /\ [][(pc' = "drain" /\ pc # "drain") => pc = "wait"]_vars
  /\ [][Len(channel') > Len(channel) =>
          SubSeq(channel', 1, Len(channel)) = channel]_vars
  /\ [][Len(channel') < Len(channel) =>
          /\ pc = "drain"
          /\ channel' = Tail(channel)
          /\ deferred_queue' = deferred_queue \o Head(channel)
          /\ world' = world]_vars
  /\ [][world' # world =>
          /\ pc = "drain"
          /\ channel = <<>>
          /\ world' = world \o deferred_queue]_vars

C25_Witness ==
  /\ pc = "next"
  /\ idx >= 1
  /\ remaining = 0
  /\ waiting = 0
  /\ Len(tasks) = 1
  /\ tasks[1].phase = idx
  /\ tasks[1].st = "done"
  /\ channel = <<<<<<1, 1>>>>>>
  /\ world = <<>>

\* C26: run() does not return while a file-write job of the Write phase is
\* unfinished: when run() has returned, and not by a panic, no nested job
\* that a counted task of the Write phase spawned and awaits is still running.
C26_WritesDoneAtReturn ==
  (pc \in {"returned", "dropped"} /\ \A u \in Units : units[u] # "panicked") =>
    \A n \in NestedIds :
      tasks[nested[n].parent].phase = NumPhases => nested[n].st # "awaited"

\* The last component of a path and the components before it.
Last(p) == p[Len(p)]
Front(p) == [i \in 1..(Len(p) - 1) |-> p[i]]

\* C28: index_sections and associate_pages_to_templates give every relative
\* page path the same page type: _index.md with empty parent is Index,
\* _index.md with non-empty parent is Section, another file with empty
\* parent is Page and with non-empty parent is Post; and index_sections
\* adds the page to the SectionIndex entry of its directory exactly when it
\* is not an _index.md page.
C28_SameClassification ==
  /\ pc = "classified" => associated = page_type
  /\ (pc \in {"associate", "classified"} /\ Len(path) > 0) =>
       /\ page_type =
            (CASE Last(path) = "_index.md" /\ Front(path) = <<>> -> "Index"
               [] Last(path) = "_index.md" /\ Front(path) # <<>> -> "Section"
               [] Last(path) # "_index.md" /\ Front(path) = <<>> -> "Page"
               [] Last(path) # "_index.md" /\ Front(path) # <<>> -> "Post")
       /\ (\E e \in section_index :
             e.dir = Front(path) /\ path \in Range(e.pages))
            <=> Last(path) # "_index.md"
       /\ \A e \in section_index :
            path \in Range(e.pages) => e.dir = Front(path)

C28_Witness ==
  /\ pc = "classified"
  /\ path = <<"blog", "_index.md">>
  /\ page_type = "Section"
  /\ associated = "Section"
  /\ section_index = {[dir |-> <<"blog">>, pages |-> <<>>]}

====
